---- MODULE Spec2Model ----
(***************************************************************************)
(* The FastJobs bump bot (fastjob_bot.py) and the SQLite store it writes   *)
(* through (db.py).  The portal's page is an external, partially           *)
(* observable UI: every response of the page to a click or key press,      *)
(* every value a reader scrapes, and every exception a browser or storage  *)
(* call can raise is a nondeterministic choice.                            *)
(*                                                                         *)
(*   Spec        - main in a single run: one call of run_cycle             *)
(*   LoopSpec    - main in continuous mode: run_cycle called repeatedly    *)
(*   UpsertSpec  - db.upsert_job applied repeatedly to one connection      *)
(*   ExtractSpec - extract_jid applied to one card                         *)
(***************************************************************************)
EXTENDS Integers, Sequences, FiniteSets, TLC

\* ------------------------------------------------------------------ bounds
MaxJobs  == 2   \* job cards discovered in one cycle
MaxCoin  == 1   \* largest coin number any reader returns
MaxLimit == 1   \* largest LIMIT_JOBS value tried
MaxCycles == 2  \* cycles the continuous mode is followed for
MaxUpserts == 3 \* calls of upsert_job in a row
MaxWhen  == 3   \* largest timestamp passed to upsert_job
MaxLead  == 20  \* most unparseable jid= links at the head of a card
MaxTail  == 2   \* links of any kind after them

\* ------------------------------------------------------------- constants
None   == -1000       \* Python None of an Optional[int]: no coin number
NoJid  == "none"      \* Python None of an Optional[str] jid
COYID  == "coy"       \* the operator's own account id
Jids   == {"j1", "j2"}
Titles == {"t1"}

Coins   == 0..MaxCoin
CoinOpt == Coins \cup {None}

Outcomes ==
  {"dry-run", "bumped", "bumped-unknown-coins", "insufficient-coins",
   "modal-not-found", "bump-failed"}

\* A discovered card: what discover_jobs stores for it.
Cards == [jid : Jids \cup {COYID, NoJid}, title : Titles, has_bump : BOOLEAN]

\* Observable overlay state of the page:
\*   modal    - an element matching _any_bump_modal is present
\*   backdrop - a .modal-backdrop element is present
\*   insuff   - a visible .fast-modal.open / .modal.show dialog with the text
\*              'Insufficient' that is not itself a bump modal
PageStates == [modal : BOOLEAN, backdrop : BOOLEAN, insuff : BOOLEAN]
CleanPage  == [modal |-> FALSE, backdrop |-> FALSE, insuff |-> FALSE]

\* What a dismissing interaction (close click, Escape, backdrop click, or the
\* mere passing of time) can leave of page p: any subset of what was open.
Shrinks(p) ==
  {q \in PageStates : /\ q.modal => p.modal
                      /\ q.backdrop => p.backdrop
                      /\ q.insuff => p.insuff}

\* ------------------------------------------------ what extract_jid reads
ScanLimit == 20       \* line 186: n = min(links.count(), 20)

\* An anchor whose href contains "jid=": the character before "jid=" and
\* what follows it, a run of digits (a jid) or something else.
Hrefs == [sep : {"?", "&", "x"}, val : Jids \cup {"abc"}]

\* The id attribute of the first .stat-number[id^='jobAdStat_'] element.
NoStat  == [metric |-> "none", val |-> "abc"]
StatIds == {NoStat} \cup [metric : {"views", "likes"}, val : Jids \cup {"abc"}]

\* The href of the first public job-ad link: the digits between two slashes,
\* six or more of them (long) or fewer.
NoPub    == [val |-> "abc", long |-> FALSE]
PubLinks == {NoPub} \cup [val : Jids, long : BOOLEAN]

\* A card without any of them.
NoContainer == [links |-> <<>>, stat |-> NoStat, pub |-> NoPub]

\* The anchors of the cards tried: up to MaxLead anchors "xjid=abc", then
\* up to MaxTail anchors of any kind, in document order.
Lead(n) == [i \in 1..n |-> [sep |-> "x", val |-> "abc"]]

Tails == UNION {[1..n -> Hrefs] : n \in 0..MaxTail}

VARIABLES
  dryRun,       \* DRY_RUN
  limitJobs,    \* LIMIT_JOBS
  pc,           \* position of run_cycle
  abortedBy,    \* what exception escaped run_cycle: "none", "nav", "dom", "db",
                \* "interrupt"
  jobs,         \* the list discover_jobs returned
  idx,          \* index (1-based) of the posting the for loop is at
  when,         \* the cycle's timestamp (cycle number)
  page,         \* overlay state of the browser page
  jobsTbl,      \* table jobs: a set of rows [job_id, title, last_seen_at]
  bumps,        \* table bumps as the connection sees it (append order)
  nCommitted,   \* how many rows of bumps are committed
  outcome,      \* local outcome of the live path
  coins_used,   \* local coins_used of the live path
  coins_before, \* header balance read before the dialog is opened
  coins_after,  \* header balance read after the confirm
  fcRet,        \* where force_close_bump_modal returns to
  live,         \* of the current live posting: clicked (line 491), the
                \* order-summary total the re-check of line 516 read from the
                \* open dialog (coins_cost), which coin signal sources were
                \* consulted so far and which of them yielded a number
  cardLog,      \* what run_cycle did for the card it is at, or was at last;
                \* swept: close_global_popups ran and no posting was
                \* finished since; confirmed: a click on the confirm
                \* button reached the page
  stateSaved,   \* context.storage_state was written in this cycle
  jobsShot,     \* safe_full_screenshot was called in this cycle's set-up
  navTried,     \* goto_jobs_list: the strategies that failed so far, in order
  leftListing,  \* coins_from_activity_pages clicked an account link: the
                \* page is no longer the listing the cards were found on
  container,    \* extract_jid: the card it is given
  extracted,    \* extract_jid: what it returned, "unset" before the call
  interval,     \* main: the interval in seconds, 0 for a single run
  mainPc        \* main: "cycle" while run_cycle runs or is about to be
                \* called again, "returned", "stopped" (KeyboardInterrupt
                \* caught), "crashed" (an exception left main)

vars == <<dryRun, limitJobs, pc, abortedBy, jobs, idx, when, page, jobsTbl,
          bumps, nCommitted, outcome, coins_used, coins_before, coins_after,
          fcRet, live, cardLog, stateSaved, jobsShot, navTried, leftListing,
          container, extracted,
          interval, mainPc>>

NoLive ==
  [clicked |-> FALSE, coins_cost |-> None, consulted |-> {}, yielded |-> {}]

NoCardLog ==
  [upserts |-> 0, rows |-> 0, swallowed |-> FALSE,
   bumpClicks |-> 0, confirmed |-> FALSE, swept |-> FALSE]

Min(a, b) == IF a <= b THEN a ELSE b

\* Mutant of ToProcess: LIMIT_JOBS is not applied.
ToProcess_Unlimited == jobs

\* run_cycle line 438: to_process = jobs if LIMIT_JOBS == 0 else jobs[:LIMIT_JOBS]
ToProcess ==
  IF limitJobs = 0 THEN jobs ELSE SubSeq(jobs, 1, Min(limitJobs, Len(jobs)))

Cur == ToProcess[idx]

InLoop == pc = "loop" /\ idx <= Len(ToProcess)

Log(field, val) == [cardLog EXCEPT ![field] = val]

Row(jid, coins, out) ==
  [job_id |-> jid, bumped_at |-> when, coins_used |-> coins, outcome |-> out]

\* Before run_cycle is called for the first time.
Fresh ==
  /\ pc = "start"
  /\ abortedBy = "none"
  /\ jobs = <<>>
  /\ idx = 1
  /\ when = 1
  /\ page = CleanPage
  /\ jobsTbl = {}
  /\ bumps = <<>>
  /\ nCommitted = 0
  /\ outcome = "none"
  /\ coins_used = None
  /\ coins_before = None
  /\ coins_after = None
  /\ fcRet = "none"
  /\ live = NoLive
  /\ cardLog = NoCardLog
  /\ stateSaved = FALSE
  /\ jobsShot = FALSE
  /\ navTried = <<>>
  /\ leftListing = FALSE
  /\ mainPc = "cycle"
  /\ extracted = "unset"

\* A single run: interactive_interval_if_needed returned 0 (lines 561-562,
\* 576-577).
Init ==
  /\ dryRun \in BOOLEAN
  /\ limitJobs \in 0..MaxLimit
  /\ interval = 0
  /\ container = NoContainer
  /\ Fresh

\* -------------------------------------------------------------- db.py
\* Both writers are conn.execute followed by conn.commit, and either call
\* can raise sqlite3.Error (database locked, disk full).  When conn.execute
\* raises, nothing was written.  When conn.commit raises, the row stays in the
\* connection's open transaction: the connection sees it, and the next commit
\* that succeeds on this connection makes it durable together with its own
\* row.  jobsTbl is kept as the durable table only: every upsert_job that
\* raises ends run_cycle (line 453 is outside any try).

\* Mutant of UpsertedJobs: a plain INSERT into a table without the primary
\* key.
UpsertedJobs_Appends(jid, title, at) ==
  jobsTbl \cup {[job_id |-> jid, title |-> title, last_seen_at |-> at]}

\* db.upsert_job: INSERT ... ON CONFLICT(job_id) DO UPDATE, then commit.
UpsertedJobs(jid, title, at) ==
  {r \in jobsTbl : r.job_id # jid}
    \cup {[job_id |-> jid, title |-> title, last_seen_at |-> at]}

UpsertJobOk(jid, title, at) ==
  /\ jobsTbl' = UpsertedJobs(jid, title, at)
  /\ nCommitted' = Len(bumps)
  /\ UNCHANGED bumps

\* Mutant of InsertBumpOk: the row is inserted and never committed.
InsertBumpOk_NoCommit(jid, coins, out) ==
  /\ bumps' = Append(bumps, Row(jid, coins, out))
  /\ UNCHANGED <<jobsTbl, nCommitted>>

\* db.insert_bump: INSERT INTO bumps, then commit.
InsertBumpOk(jid, coins, out) ==
  /\ bumps' = Append(bumps, Row(jid, coins, out))
  /\ nCommitted' = Len(bumps) + 1
  /\ UNCHANGED jobsTbl

\* db.insert_bump raising: out of conn.execute (executed = FALSE) or out of
\* conn.commit (executed = TRUE).
InsertBumpRaises(jid, coins, out, executed) ==
  /\ bumps' = IF executed THEN Append(bumps, Row(jid, coins, out)) ELSE bumps
  /\ UNCHANGED <<jobsTbl, nCommitted>>

\* ------------------------------------------------- run_cycle: set-up
cfgVars  == <<dryRun, limitJobs, when>>
mainVars == <<interval, mainPc>>
extractVars == <<container, extracted>>
outerVars == <<mainVars, extractVars, jobsShot, navTried>>
dbVars   == <<jobsTbl, bumps, nCommitted>>
liveVars == <<outcome, coins_used, coins_before, coins_after, live>>

\* The locals of the live path are dead once an iteration ends: the next
\* live iteration assigns outcome, coins_used and coins_before (lines
\* 464-468) and coins_after (line 508) before reading them.
ForgetLocals ==
  /\ outcome' = "none"
  /\ coins_used' = None
  /\ coins_before' = None
  /\ coins_after' = None
  /\ live' = NoLive

\* Neither the except clause (lines 531-533) nor anything after the try
\* statement (lines 536-541) reads coins_before, coins_after or clicked.
EndTry ==
  /\ coins_before' = None
  /\ coins_after' = None
  /\ live' = NoLive

\* An exception leaves run_cycle: its frame is gone and leaving the with
\* block of line 421 closes the browser.
Abort(cause) ==
  /\ pc' = "aborted"
  /\ abortedBy' = cause
  /\ page' = CleanPage
  /\ leftListing' = FALSE
  /\ fcRet' = "none"
  /\ ForgetLocals

\* goto_jobs_list, lines 138-155: the strategies in the order they are tried:
\* the loop over the five link names, then JOBS_URLS[0], [1] and [2].
NavOrder == <<"links", "url_1", "url_2", "url_3">>

\* Lines 138-155: the next strategy shows no job card, or raises and the
\* exception is swallowed.
NavStrategyFails ==
  /\ pc = "start"
  /\ Len(navTried) < Len(NavOrder)
  /\ navTried' = Append(navTried, NavOrder[Len(navTried) + 1])
  /\ UNCHANGED <<mainVars, extractVars, jobsShot, cfgVars, leftListing, dbVars,
                 liveVars, pc, abortedBy, jobs, idx, page, fcRet, cardLog,
                 stateSaved>>

\* Lines 427-432: login, dashboard, and the next strategy of goto_jobs_list
\* reaches a page with job cards; goto_jobs_list returns and
\* safe_full_screenshot(page, "data/jobs_after.png") is called.
Navigate ==
  /\ pc = "start"
  /\ Len(navTried) < Len(NavOrder)
  /\ navTried' = <<>>
  /\ cardLog' = Log("swept", TRUE)
  /\ jobsShot' = TRUE
  /\ pc' = "discover"
  /\ UNCHANGED <<mainVars, extractVars, cfgVars, leftListing, dbVars, liveVars,
                 abortedBy, jobs, idx, page, fcRet, stateSaved>>

\* Line 156: after the five link names and the three JOBS_URLS,
\* goto_jobs_list raises RuntimeError, which leaves run_cycle; no screenshot
\* call lies on that path.
NavigateFails ==
  /\ pc = "start"
  /\ Len(navTried) = Len(NavOrder)
  /\ navTried' = <<>>
  /\ Abort("nav")
  /\ UNCHANGED <<mainVars, extractVars, jobsShot, cfgVars, dbVars, jobs, idx,
                 cardLog, stateSaved>>

\* Lines 434-438: discover_jobs returns the cards in page order.
Discover ==
  /\ pc = "discover"
  /\ \E n \in 0..MaxJobs : jobs' \in [1..n -> Cards]
  /\ idx' = 1
  /\ pc' = "loop"
  /\ UNCHANGED <<outerVars, cfgVars, leftListing, dbVars, liveVars, abortedBy,
                 page, fcRet, cardLog, stateSaved>>

\* Lines 446-451: a card without a jid, or whose jid is the company id.
SkipPosting ==
  /\ InLoop
  /\ Cur.jid = NoJid \/ Cur.jid = COYID
  /\ idx' = idx + 1
  /\ cardLog' = [NoCardLog EXCEPT !.swept = cardLog.swept]
  /\ UNCHANGED <<outerVars, cfgVars, leftListing, dbVars, liveVars, pc,
                 abortedBy, jobs, page, fcRet, stateSaved>>

\* Mutant of Valid: the comparison with COYID of line 449 is dropped.
Valid_IgnoresCoyid(c) == c.jid # NoJid

\* The negation of the two skip tests of lines 446 and 449.
Valid(c) == c.jid # NoJid /\ c.jid # COYID

\* Line 453: db.upsert_job(conn, jid, title, when).
UpsertJob ==
  /\ InLoop
  /\ Valid(Cur)
  /\ UpsertJobOk(Cur.jid, Cur.title, when)
  /\ cardLog' = [NoCardLog EXCEPT !.upserts = 1, !.swept = cardLog.swept]
  /\ pc' = "gate"
  /\ UNCHANGED <<outerVars, cfgVars, leftListing, liveVars, abortedBy, jobs,
                 idx, page, fcRet, stateSaved>>

\* Line 453 raising: not inside any try, the exception leaves run_cycle.
UpsertJobFails ==
  /\ InLoop
  /\ Valid(Cur)
  /\ cardLog' = NoCardLog
  /\ Abort("db")
  /\ UNCHANGED <<outerVars, cfgVars, dbVars, jobs, idx, stateSaved>>

\* Lines 455-461: DRY_RUN or no bump control: record "dry-run", swallow a
\* failed write, continue.
DryRunRecord ==
  /\ pc = "gate"
  /\ dryRun \/ ~Cur.has_bump
  /\ InsertBumpOk(Cur.jid, None, "dry-run")
  /\ cardLog' = [cardLog EXCEPT !.rows = @ + 1, !.swept = FALSE]
  /\ idx' = idx + 1
  /\ pc' = "loop"
  /\ UNCHANGED <<outerVars, cfgVars, leftListing, liveVars, abortedBy, jobs,
                 page, fcRet, stateSaved>>

DryRunRecordFails ==
  /\ pc = "gate"
  /\ dryRun \/ ~Cur.has_bump
  /\ \E executed \in BOOLEAN :
       /\ InsertBumpRaises(Cur.jid, None, "dry-run", executed)
       /\ cardLog' = [cardLog EXCEPT
            !.swallowed = TRUE,
            !.swept = FALSE,
            !.rows = @ + (IF executed THEN 1 ELSE 0)]
  /\ idx' = idx + 1
  /\ pc' = "loop"
  /\ UNCHANGED <<outerVars, cfgVars, leftListing, liveVars, abortedBy, jobs,
                 page, fcRet, stateSaved>>

\* Mutant of LiveStart: the test of line 455 forgets DRY_RUN.
LiveStart_IgnoresDryRun ==
  /\ pc = "gate"
  /\ Cur.has_bump
  /\ outcome' = "bump-attempted"
  /\ coins_used' = None
  /\ coins_before' \in CoinOpt
  /\ coins_after' = None
  /\ live' = NoLive
  /\ pc' = "open"
  /\ UNCHANGED <<outerVars, cfgVars, leftListing, dbVars, abortedBy, jobs, idx,
                 page, fcRet, cardLog, stateSaved>>

\* Lines 463-468: the live path starts; read_header_coins never raises.
LiveStart ==
  /\ pc = "gate"
  /\ ~dryRun /\ Cur.has_bump
  /\ outcome' = "bump-attempted"
  /\ coins_used' = None
  /\ coins_before' \in CoinOpt
  /\ coins_after' = None
  /\ live' = NoLive
  /\ pc' = "open"
  /\ UNCHANGED <<outerVars, cfgVars, leftListing, dbVars, abortedBy, jobs, idx,
                 page, fcRet, cardLog, stateSaved>>

\* ------------------------------------------- run_cycle: the live path
\* Lines 472-477 raising (scroll, click, wait_for_timeout or the polling in
\* wait_for_bump_modal): caught by the except of line 531.  The click may or
\* may not have reached the page before the exception, and so may
\* close_global_popups.  bump_btn is a Locator (lines 208-231), resolved
\* again on every use: on an account page it matches nothing and line 472
\* times out.
OpenRaises ==
  /\ pc = "open"
  /\ \E clicked \in (IF leftListing THEN {FALSE} ELSE BOOLEAN) :
       /\ page' \in (IF clicked THEN PageStates ELSE {page})
       /\ \E swept \in (IF clicked THEN {cardLog.swept, TRUE} ELSE {cardLog.swept}) :
            cardLog' = [cardLog EXCEPT
              !.bumpClicks = @ + (IF clicked THEN 1 ELSE 0),
              !.swept = swept]
  /\ pc' = "except"
  /\ EndTry
  /\ UNCHANGED <<outerVars, cfgVars, leftListing, dbVars, abortedBy, jobs, idx,
                 fcRet, stateSaved, outcome, coins_used>>

\* Lines 472-477: the bump control is clicked, the page answers, popups are
\* dismissed and wait_for_bump_modal polls for a visible bump modal.
OpenModalFound ==
  /\ pc = "open"
  /\ ~leftListing
  /\ page' \in {q \in PageStates : q.modal}
  /\ cardLog' = [cardLog EXCEPT !.bumpClicks = @ + 1, !.swept = TRUE]
  /\ pc' = "confirm"
  /\ UNCHANGED <<outerVars, cfgVars, leftListing, dbVars, liveVars, abortedBy,
                 jobs, idx, fcRet, stateSaved>>

OpenModalMissing ==
  /\ pc = "open"
  /\ ~leftListing
  /\ page' \in {q \in PageStates : ~q.modal}
  /\ cardLog' = [cardLog EXCEPT !.bumpClicks = @ + 1, !.swept = TRUE]
  /\ pc' = "nomodal"
  /\ UNCHANGED <<outerVars, cfgVars, leftListing, dbVars, liveVars, abortedBy,
                 jobs, idx, fcRet, stateSaved>>

\* Lines 478-485: outcome "modal-not-found" is written, then force-close and
\* continue.
ModalNotFoundRecord ==
  /\ pc = "nomodal"
  /\ outcome' = "modal-not-found"
  /\ InsertBumpOk(Cur.jid, None, "modal-not-found")
  /\ cardLog' = Log("rows", cardLog.rows + 1)
  /\ fcRet' = "continue"
  /\ pc' = "fc_btn"
  /\ EndTry
  /\ UNCHANGED <<outerVars, cfgVars, leftListing, abortedBy, jobs, idx, page,
                 stateSaved, coins_used>>

\* Line 482 raising: inside the try, so the except of line 531 takes over.
ModalNotFoundRecordFails ==
  /\ pc = "nomodal"
  /\ outcome' = "modal-not-found"
  /\ \E executed \in BOOLEAN :
       /\ InsertBumpRaises(Cur.jid, None, "modal-not-found", executed)
       /\ cardLog' = Log("rows", cardLog.rows + (IF executed THEN 1 ELSE 0))
  /\ pc' = "except"
  /\ EndTry
  /\ UNCHANGED <<outerVars, cfgVars, leftListing, abortedBy, jobs, idx, page,
                 fcRet, stateSaved, coins_used>>

\* Lines 488-491: read_modal_cost_and_balance never raises and its results
\* (_cost, _after) are not read by any later line, so they are not kept.
\* click_confirm_in_modal, lines 347-352: the button is found, scrolled to and
\* clicked, the wait of line 350 passes and True is returned; the page
\* answers.
ConfirmClicked ==
  /\ pc = "confirm"
  /\ page' \in PageStates
  /\ cardLog' = Log("confirmed", TRUE)
  /\ live' = [live EXCEPT !.clicked = TRUE]
  /\ pc' = "settle"
  /\ UNCHANGED <<outerVars, cfgVars, leftListing, dbVars, abortedBy, jobs, idx,
                 fcRet, stateSaved, outcome, coins_used, coins_before,
                 coins_after>>

\* click_confirm_in_modal, lines 347-354: btn.count() is 0, or the try block
\* raises and the exception is swallowed; either way the fallback is next.
\* The exception comes before the click reached the page (count, scroll, the
\* actionability wait of click) or after it (click waiting for a navigation
\* the click started, or the wait of line 350).  Nothing looks at the page
\* before click_confirm_in_modal returns: its answer is drawn then.
ConfirmClickRaises ==
  /\ pc = "confirm"
  /\ \E landed \in BOOLEAN : cardLog' = Log("confirmed", landed)
  /\ pc' = "confirm_fb"
  /\ UNCHANGED <<outerVars, cfgVars, leftListing, dbVars, liveVars, abortedBy,
                 jobs, idx, page, fcRet, stateSaved>>

\* click_confirm_in_modal, lines 355-361: modal.evaluate runs b.click(), the
\* wait of line 360 passes and True is returned; the page answers.
ConfirmFallback ==
  /\ pc = "confirm_fb"
  /\ page' \in PageStates
  /\ cardLog' = Log("confirmed", TRUE)
  /\ live' = [live EXCEPT !.clicked = TRUE]
  /\ pc' = "settle"
  /\ UNCHANGED <<outerVars, cfgVars, leftListing, dbVars, abortedBy, jobs, idx,
                 fcRet, stateSaved, outcome, coins_used, coins_before,
                 coins_after>>

\* click_confirm_in_modal, lines 355-363: the fallback raises and False is
\* returned: out of modal.evaluate, or out of the wait of line 360 after
\* b.click() ran.  landed: some click of this call reached the page, and the
\* page answers.
ConfirmFails ==
  /\ pc = "confirm_fb"
  /\ \E landed \in (IF cardLog.confirmed THEN {TRUE} ELSE BOOLEAN) :
       /\ cardLog' = Log("confirmed", landed)
       /\ page' \in (IF landed THEN PageStates ELSE {page})
  /\ pc' = "confirmfail"
  /\ UNCHANGED <<outerVars, cfgVars, leftListing, dbVars, liveVars, abortedBy,
                 jobs, idx, fcRet, stateSaved>>

\* Lines 492-497: outcome "bump-failed" is written, then force-close and
\* continue.
ConfirmFailRecord ==
  /\ pc = "confirmfail"
  /\ outcome' = "bump-failed"
  /\ InsertBumpOk(Cur.jid, None, "bump-failed")
  /\ cardLog' = Log("rows", cardLog.rows + 1)
  /\ fcRet' = "continue"
  /\ pc' = "fc_btn"
  /\ EndTry
  /\ UNCHANGED <<outerVars, cfgVars, leftListing, abortedBy, jobs, idx, page,
                 stateSaved, coins_used>>

ConfirmFailRecordFails ==
  /\ pc = "confirmfail"
  /\ outcome' = "bump-failed"
  /\ \E executed \in BOOLEAN :
       /\ InsertBumpRaises(Cur.jid, None, "bump-failed", executed)
       /\ cardLog' = Log("rows", cardLog.rows + (IF executed THEN 1 ELSE 0))
  /\ pc' = "except"
  /\ EndTry
  /\ UNCHANGED <<outerVars, cfgVars, leftListing, abortedBy, jobs, idx, page,
                 fcRet, stateSaved, coins_used>>

\* Line 500, page.wait_for_timeout(1200), raising.
SettleRaises ==
  /\ pc = "settle"
  /\ pc' = "except"
  /\ EndTry
  /\ UNCHANGED <<outerVars, cfgVars, leftListing, dbVars, abortedBy, jobs, idx,
                 page, fcRet, cardLog, stateSaved, outcome, coins_used>>

\* Lines 503-505: detect_visible_insufficient returns True.
InsufficientDetected ==
  /\ pc = "settle"
  /\ page.insuff
  /\ outcome' = "insufficient-coins"
  /\ coins_used' = 0
  /\ pc' = "close"
  /\ UNCHANGED <<outerVars, cfgVars, leftListing, dbVars, abortedBy, jobs, idx,
                 page, fcRet, cardLog, stateSaved, coins_before, coins_after,
                 live>>

\* Mutants of HeaderDelta: the order check and the delta > 0 check dropped;
\* the new balance taken for the delta.
HeaderDelta_Unguarded(before, after) ==
  IF before # None /\ after # None THEN before - after ELSE None

HeaderDelta_NewBalance(before, after) ==
  IF before # None /\ after # None /\ after <= before /\ before - after > 0
    THEN after
    ELSE None

\* The header delta of lines 509-512 (and 517-520, on the modal's balance).
HeaderDelta(before, after) ==
  IF before # None /\ after # None /\ after <= before /\ before - after > 0
    THEN before - after
    ELSE None

\* Lines 506-512: no visible insufficient dialog (or the detector swallowed an
\* exception and returned False); read the header again and take the delta.
ReadHeaderAfter ==
  /\ pc = "settle"
  /\ \E after \in CoinOpt :
       /\ coins_after' = after
       /\ coins_used' = HeaderDelta(coins_before, after)
       /\ live' = [live EXCEPT
            !.consulted = @ \cup {"header"},
            !.yielded = IF HeaderDelta(coins_before, after) # None
                          THEN @ \cup {"header"} ELSE @]
  /\ pc' = "recheck"
  /\ UNCHANGED <<outerVars, cfgVars, leftListing, dbVars, abortedBy, jobs, idx,
                 page, fcRet, cardLog, stateSaved, outcome, coins_before>>

\* Line 514, wait_for_bump_modal(page, 1200), raising.
RecheckRaises ==
  /\ pc = "recheck"
  /\ pc' = "except"
  /\ EndTry
  /\ UNCHANGED <<outerVars, cfgVars, leftListing, dbVars, abortedBy, jobs, idx,
                 page, fcRet, cardLog, stateSaved, outcome, coins_used>>

\* Lines 514-520: if the modal is still open and nothing is known yet,
\* read_modal_cost_and_balance reads its order-summary total and its balance;
\* the total is dropped (the "_" of line 516) and the balance gives a second
\* delta.
RecheckModal ==
  /\ pc = "recheck"
  /\ IF coins_used = None /\ page.modal
       THEN \E coins_cost \in CoinOpt, modal_after2 \in CoinOpt :
              /\ coins_used' = HeaderDelta(coins_before, modal_after2)
              /\ live' = [live EXCEPT
                   !.coins_cost = coins_cost,
                   !.consulted = @ \cup {"modal"},
                   !.yielded = IF HeaderDelta(coins_before, modal_after2) # None
                                 THEN @ \cup {"modal"} ELSE @]
       ELSE UNCHANGED <<coins_used, live>>
  /\ pc' = "fallback"
  /\ UNCHANGED <<outerVars, cfgVars, leftListing, dbVars, abortedBy, jobs, idx,
                 page, fcRet, cardLog, stateSaved, outcome, coins_before,
                 coins_after>>

\* Mutant of Classify: every confirmed bump counts as bumped.
Classify_AlwaysBumped(coins) == "bumped"

\* Line 527.
Classify(coins) ==
  IF coins # None /\ coins >= 0 THEN "bumped" ELSE "bumped-unknown-coins"

\* Lines 522-529: coins_from_toast_or_body, then coins_from_activity_pages,
\* each only if coins_used is still None; neither raises.  Then the outcome.
\* coins_from_activity_pages (lines 393-412) reads a number only from a page
\* it reached by clicking an account link, and never navigates back; the
\* document it loaded has no bump modal, backdrop or insufficient dialog.
Fallbacks ==
  /\ pc = "fallback"
  /\ IF coins_used # None
       THEN UNCHANGED <<coins_used, live, page, leftListing>>
       ELSE \E toast \in CoinOpt :
              IF toast # None
                THEN /\ coins_used' = toast
                     /\ live' = [live EXCEPT !.consulted = @ \cup {"toast"},
                                             !.yielded = @ \cup {"toast"}]
                     /\ UNCHANGED <<page, leftListing>>
                ELSE \E activity \in CoinOpt :
                       /\ coins_used' = activity
                       /\ live' = [live EXCEPT
                            !.consulted = @ \cup {"toast", "activity"},
                            !.yielded = IF activity # None
                                          THEN @ \cup {"activity"} ELSE @]
                       /\ \E left \in (IF activity # None THEN {TRUE} ELSE BOOLEAN) :
                            /\ leftListing' = left
                            /\ page' = IF left THEN CleanPage ELSE page
  /\ outcome' = Classify(coins_used')
  /\ pc' = "close"
  /\ UNCHANGED <<outerVars, cfgVars, dbVars, abortedBy, jobs, idx, fcRet, cardLog,
                 stateSaved, coins_before, coins_after>>

\* Mutant of Except: the handler logs but does not set the outcome.
Except_KeepsOutcome ==
  /\ pc = "except"
  /\ pc' = "close"
  /\ UNCHANGED <<outerVars, cfgVars, leftListing, dbVars, liveVars, abortedBy,
                 jobs, idx, page, fcRet, cardLog, stateSaved>>

\* Lines 531-533: except Exception: outcome = "bump-failed".
Except ==
  /\ pc = "except"
  /\ outcome' = "bump-failed"
  /\ pc' = "close"
  /\ UNCHANGED <<outerVars, cfgVars, leftListing, dbVars, abortedBy, jobs, idx,
                 page, fcRet, cardLog, stateSaved, coins_used, coins_before,
                 coins_after, live>>

\* ------------------------------------------- force_close_bump_modal
\* wait_modal_closed returning True: no bump modal and no backdrop is left.
\* It does not look at any other open dialog.
ModalClosed(p) == ~p.modal /\ ~p.backdrop

fcFrame == <<outerVars, cfgVars, leftListing, dbVars, liveVars, abortedBy, jobs,
             idx, fcRet, cardLog, stateSaved>>

\* Line 536: the call after the try statement.
Close ==
  /\ pc = "close"
  /\ fcRet' = "insert"
  /\ pc' = "fc_btn"
  /\ EndTry
  /\ UNCHANGED <<outerVars, cfgVars, leftListing, dbVars, abortedBy, jobs, idx,
                 page, cardLog, stateSaved, outcome, coins_used>>

\* Lines 280-293: a visible close control of an open dialog is clicked and
\* wait_modal_closed reports the bump modal and backdrop gone: return.
FcCloseButtonReturns ==
  /\ pc = "fc_btn"
  /\ page.modal \/ page.insuff
  /\ page' \in {q \in Shrinks(page) : ModalClosed(q)}
  /\ pc' = "fc_ret"
  /\ UNCHANGED fcFrame

\* Lines 280-293: no close control is visible, a click raises, or the modal
\* is still there after every click: fall through to Escape.
FcCloseButtonFallsThrough ==
  /\ pc = "fc_btn"
  /\ page' \in (IF page.modal \/ page.insuff THEN Shrinks(page) ELSE {page})
  /\ pc' = "fc_esc"
  /\ UNCHANGED fcFrame

\* Lines 295-299: Escape is pressed and wait_modal_closed returns True.
FcEscapeReturns ==
  /\ pc = "fc_esc"
  /\ page' \in {q \in Shrinks(page) : ModalClosed(q)}
  /\ pc' = "fc_ret"
  /\ UNCHANGED fcFrame

\* Lines 295-301: the key press raises or the modal stays.
FcEscapeFallsThrough ==
  /\ pc = "fc_esc"
  /\ page' \in Shrinks(page)
  /\ pc' = "fc_bd"
  /\ UNCHANGED fcFrame

\* Lines 303-309: a visible backdrop is clicked and the modal is gone.
FcBackdropReturns ==
  /\ pc = "fc_bd"
  /\ page.backdrop
  /\ page' \in {q \in Shrinks(page) : ModalClosed(q)}
  /\ pc' = "fc_ret"
  /\ UNCHANGED fcFrame

\* Lines 303-311: no backdrop, the click raises, or the modal stays.
FcBackdropFallsThrough ==
  /\ pc = "fc_bd"
  /\ page' \in (IF page.backdrop THEN Shrinks(page) ELSE {page})
  /\ pc' = "fc_js"
  /\ UNCHANGED fcFrame

\* Lines 313-321: every .fast-modal.open, .modal.show and .modal-backdrop
\* node is removed from the document.
FcRemoveNodes ==
  /\ pc = "fc_js"
  /\ page' = CleanPage
  /\ pc' = "fc_ret"
  /\ UNCHANGED fcFrame

\* Lines 322-323: page.evaluate raises and the exception is swallowed.
FcRemoveNodesRaises ==
  /\ pc = "fc_js"
  /\ pc' = "fc_ret"
  /\ UNCHANGED <<fcFrame, page>>

\* force_close_bump_modal returns: to the continue of line 485 or 497, or
\* to line 537.
FcReturn ==
  /\ pc = "fc_ret"
  /\ IF fcRet = "continue"
       THEN /\ idx' = idx + 1
            /\ pc' = "loop"
            /\ cardLog' = Log("swept", FALSE)
            /\ ForgetLocals
       ELSE /\ idx' = idx
            /\ pc' = "waitclosed"
            /\ UNCHANGED <<liveVars, cardLog>>
  /\ fcRet' = "none"
  /\ UNCHANGED <<outerVars, cfgVars, leftListing, dbVars, abortedBy, jobs,
                 page, stateSaved>>

\* ------------------------------------ run_cycle: after the try statement
\* Line 537: wait_modal_closed(page, 3000); its result is ignored.
WaitClosed ==
  /\ pc = "waitclosed"
  /\ page' \in Shrinks(page)
  /\ pc' = "insert"
  /\ UNCHANGED fcFrame

\* Line 537 raising: not inside any try, the exception leaves run_cycle.
WaitClosedRaises ==
  /\ pc = "waitclosed"
  /\ Abort("dom")
  /\ UNCHANGED <<outerVars, cfgVars, dbVars, jobs, idx, cardLog, stateSaved>>

\* Line 539: db.insert_bump(conn, jid, when, coins_used, outcome).
LiveInsert ==
  /\ pc = "insert"
  /\ InsertBumpOk(Cur.jid, coins_used, outcome)
  /\ cardLog' = Log("rows", cardLog.rows + 1)
  /\ pc' = "inserted"
  /\ UNCHANGED <<outerVars, cfgVars, leftListing, liveVars, abortedBy, jobs,
                 idx, page, fcRet, stateSaved>>

\* Line 539 raising: not inside any try, the exception leaves run_cycle.
LiveInsertFails ==
  /\ pc = "insert"
  /\ \E executed \in BOOLEAN :
       /\ InsertBumpRaises(Cur.jid, coins_used, outcome, executed)
       /\ cardLog' = Log("rows", cardLog.rows + (IF executed THEN 1 ELSE 0))
  /\ Abort("db")
  /\ UNCHANGED <<outerVars, cfgVars, jobs, idx, stateSaved>>

\* Lines 540-541: the log line and page.wait_for_timeout(500).
NextPosting ==
  /\ pc = "inserted"
  /\ idx' = idx + 1
  /\ pc' = "loop"
  /\ cardLog' = Log("swept", FALSE)
  /\ ForgetLocals
  /\ UNCHANGED <<outerVars, cfgVars, leftListing, dbVars, abortedBy, jobs,
                 page, fcRet, stateSaved>>

\* Line 541 raising: not inside any try, the exception leaves run_cycle.
NextPostingRaises ==
  /\ pc = "inserted"
  /\ Abort("dom")
  /\ UNCHANGED <<outerVars, cfgVars, dbVars, jobs, idx, cardLog, stateSaved>>

\* Lines 543-547: the loop is over; the session state is saved and the
\* browser closed.
SaveState ==
  /\ pc = "loop"
  /\ idx > Len(ToProcess)
  /\ stateSaved' = TRUE
  /\ page' = CleanPage
  /\ leftListing' = FALSE
  /\ pc' = "done"
  /\ UNCHANGED <<outerVars, cfgVars, dbVars, liveVars, abortedBy, jobs, idx, fcRet, cardLog>>

\* One step of run_cycle.
Cycle ==
  \/ NavStrategyFails
  \/ Navigate
  \/ NavigateFails
  \/ Discover
  \/ SkipPosting
  \/ UpsertJob
  \/ UpsertJobFails
  \/ DryRunRecord
  \/ DryRunRecordFails
  \/ LiveStart
  \/ OpenRaises
  \/ OpenModalFound
  \/ OpenModalMissing
  \/ ModalNotFoundRecord
  \/ ModalNotFoundRecordFails
  \/ ConfirmClicked
  \/ ConfirmClickRaises
  \/ ConfirmFallback
  \/ ConfirmFails
  \/ ConfirmFailRecord
  \/ ConfirmFailRecordFails
  \/ SettleRaises
  \/ InsufficientDetected
  \/ ReadHeaderAfter
  \/ RecheckRaises
  \/ RecheckModal
  \/ Fallbacks
  \/ Except
  \/ Close
  \/ FcCloseButtonReturns
  \/ FcCloseButtonFallsThrough
  \/ FcEscapeReturns
  \/ FcEscapeFallsThrough
  \/ FcBackdropReturns
  \/ FcBackdropFallsThrough
  \/ FcRemoveNodes
  \/ FcRemoveNodesRaises
  \/ FcReturn
  \/ WaitClosed
  \/ WaitClosedRaises
  \/ LiveInsert
  \/ LiveInsertFails
  \/ NextPosting
  \/ NextPostingRaises
  \/ SaveState

\* ------------------------------------------------------------------ main
\* Line 577: in a single run main returns when run_cycle has returned.
MainReturns ==
  /\ mainPc = "cycle"
  /\ interval = 0
  /\ pc = "done"
  /\ mainPc' = "returned"
  /\ UNCHANGED <<cfgVars, leftListing, dbVars, liveVars, extractVars, interval,
                 jobsShot, navTried, pc, abortedBy, jobs, idx, page, fcRet,
                 cardLog, stateSaved>>

\* Lines 565-577: an exception that leaves run_cycle leaves main as well, in
\* a single run and in continuous mode alike: the only handler around the
\* call is except KeyboardInterrupt (line 574).
MainCrashes ==
  /\ mainPc = "cycle"
  /\ pc = "aborted"
  /\ mainPc' = "crashed"
  /\ UNCHANGED <<cfgVars, leftListing, dbVars, liveVars, extractVars, interval,
                 jobsShot, navTried, pc, abortedBy, jobs, idx, page, fcRet,
                 cardLog, stateSaved>>

\* Lines 566-573: continuous mode; run_cycle has returned, main sleeps for
\* what is left of the interval and calls run_cycle again.  The new call
\* opens a new connection, which sees the committed rows only, and takes a
\* new timestamp.
MainNextCycle ==
  /\ mainPc = "cycle"
  /\ interval > 0
  /\ pc = "done"
  /\ when < MaxCycles
  /\ when' = when + 1
  /\ bumps' = SubSeq(bumps, 1, nCommitted)
  /\ pc' = "start"
  /\ jobs' = <<>>
  /\ idx' = 1
  /\ cardLog' = NoCardLog
  /\ stateSaved' = FALSE
  /\ jobsShot' = FALSE
  /\ UNCHANGED <<mainVars, extractVars, navTried, leftListing, dryRun,
                 limitJobs, jobsTbl, nCommitted, liveVars, abortedBy, page,
                 fcRet>>

\* Lines 574-575: Ctrl+C in continuous mode, while run_cycle runs or main
\* sleeps: KeyboardInterrupt is no Exception, so nothing in run_cycle catches
\* it; main catches it and returns.
MainInterrupted ==
  /\ mainPc = "cycle"
  /\ interval > 0
  /\ pc # "aborted"
  /\ mainPc' = "stopped"
  /\ Abort("interrupt")
  /\ UNCHANGED <<cfgVars, dbVars, extractVars, interval, jobsShot, navTried, jobs, idx,
                 cardLog, stateSaved>>

\* A single run (python fastjob_bot.py, blank answer to the prompt).
Next ==
  \/ Cycle
  \/ MainReturns
  \/ MainCrashes

Spec == Init /\ [][Next]_vars

\* ------------------------------------------------------- extract_jid
\* Lines 171-175 with JID_RE = [?&]jid=(\d+)\b.
jid_from_href(href) ==
  IF href.sep \in {"?", "&"} /\ href.val \in Jids THEN href.val ELSE NoJid

\* Lines 177-181 with STAT_ID_RE = jobAdStat_(views|applications|...)_(\d+)$.
jid_from_stat_id(stat_id) ==
  IF stat_id.metric = "views" /\ stat_id.val \in Jids THEN stat_id.val ELSE NoJid

\* Lines 187-191: the loop over the first n anchors.
RECURSIVE ScanLinks(_, _, _)
ScanLinks(links, i, n) ==
  IF i > n THEN NoJid
  ELSE IF jid_from_href(links[i]) # NoJid THEN jid_from_href(links[i])
  ELSE ScanLinks(links, i + 1, n)

\* Mutant of extract_jid: the stat id is tried before the anchors.
extract_jid_StatFirst(card) ==
  IF jid_from_stat_id(card.stat) # NoJid THEN jid_from_stat_id(card.stat)
  ELSE IF ScanLinks(card.links, 1, Min(Len(card.links), ScanLimit)) # NoJid
    THEN ScanLinks(card.links, 1, Min(Len(card.links), ScanLimit))
  ELSE IF card.pub.long /\ card.pub.val \in Jids THEN card.pub.val
  ELSE NoJid

\* Lines 183-206.
extract_jid(card) ==
  IF ScanLinks(card.links, 1, Min(Len(card.links), ScanLimit)) # NoJid
    THEN ScanLinks(card.links, 1, Min(Len(card.links), ScanLimit))
  ELSE IF jid_from_stat_id(card.stat) # NoJid THEN jid_from_stat_id(card.stat)
  ELSE IF card.pub.long /\ card.pub.val \in Jids THEN card.pub.val
  ELSE NoJid

\* extract_jid applied to one card.
ExtractInit ==
  /\ dryRun = TRUE
  /\ limitJobs = 0
  /\ interval = 0
  /\ \E n \in 0..MaxLead, t \in Tails, st \in StatIds, pb \in PubLinks :
       container = [links |-> Lead(n) \o t, stat |-> st, pub |-> pb]
  /\ Fresh

ExtractJid ==
  /\ extracted = "unset"
  /\ extracted' = extract_jid(container)
  /\ UNCHANGED <<mainVars, cfgVars, leftListing, dbVars, liveVars, container,
                 jobsShot, navTried, pc, abortedBy, jobs, idx, page, fcRet,
                 cardLog, stateSaved>>

ExtractNext == ExtractJid

ExtractSpec == ExtractInit /\ [][ExtractNext]_vars

\* ------------------------------------------------- db.upsert_job alone
\* upsert_job called again and again on one connection, with any job_id,
\* title and timestamp; jobs and when hold the arguments of the last call and
\* cardLog.upserts counts the calls.
UpsertTitles == {"t1", "t2"}

UpsertInit ==
  /\ dryRun = TRUE
  /\ limitJobs = 0
  /\ interval = 0
  /\ container = NoContainer
  /\ Fresh

UpsertCall ==
  /\ cardLog.upserts < MaxUpserts
  /\ \E jid \in Jids, title \in UpsertTitles, at \in 1..MaxWhen :
       /\ UpsertJobOk(jid, title, at)
       /\ jobs' = <<[jid |-> jid, title |-> title, has_bump |-> FALSE]>>
       /\ when' = at
  /\ cardLog' = Log("upserts", cardLog.upserts + 1)
  /\ UNCHANGED <<outerVars, leftListing, liveVars, dryRun, limitJobs, pc,
                 abortedBy, idx, page, fcRet, stateSaved>>

UpsertNext == UpsertCall

UpsertSpec == UpsertInit /\ [][UpsertNext]_vars

\* Continuous mode, followed for MaxCycles cycles with LIMIT_JOBS = 1.
LoopInit ==
  /\ dryRun \in BOOLEAN
  /\ limitJobs = 1
  /\ interval = 1
  /\ container = NoContainer
  /\ Fresh

LoopNext ==
  \/ Cycle
  \/ MainNextCycle
  \/ MainCrashes
  \/ MainInterrupted

LoopSpec == LoopInit /\ [][LoopNext]_vars

\* ---------------------------------------------------------------- claims
Rows == {bumps[i] : i \in 1..Len(bumps)}

\* The card the loop has just finished with.
Prev == ToProcess[idx - 1]

JustFinished == pc = "loop" /\ idx > 1

\* The row line 539 wrote carries the locals coins_used and outcome.
LiveRowWritten ==
  pc = "inserted" => bumps[Len(bumps)] = Row(Cur.jid, coins_used, outcome)

\* The try statement of a live posting ended at line 529 with the coin signal
\* sources consulted: the confirm was clicked, no visible insufficient-balance
\* dialog was detected and no exception was raised.
Accounted ==
  /\ pc = "close"
  /\ live.clicked
  /\ "header" \in live.consulted
  /\ outcome # "bump-failed"

\* C1: every row written through insert_bump has one of the six outcomes; the
\* placeholder "bump-attempted" is never written.
C1_OutcomeClosed == \A r \in Rows : r.outcome \in Outcomes

C1_Witness ==
  /\ pc = "inserted"
  /\ Len(bumps) = 2
  /\ bumps[1].outcome = "bump-failed"
  /\ bumps[2].outcome = "bumped"

\* C2: every row with outcome bumped-unknown-coins, modal-not-found,
\* bump-failed or dry-run has coins_used NULL.
C2_NullCoins ==
  \A r \in Rows :
    r.outcome \in {"bumped-unknown-coins", "modal-not-found", "bump-failed", "dry-run"}
      => r.coins_used = None

\* C3: coins_used is 0 exactly in the rows with outcome insufficient-coins.
C3_ZeroOnlyInsufficient ==
  \A r \in Rows : (r.coins_used = 0) <=> (r.outcome = "insufficient-coins")

\* C4: no row has a negative coins_used; a header balance that went up
\* (before < after) gives no delta, and a later signal source is consulted.
C4_NeverNegative ==
  /\ \A r \in Rows : r.coins_used = None \/ r.coins_used >= 0
  /\ (/\ pc \in {"recheck", "fallback", "close"}
      /\ "header" \in live.consulted
      /\ coins_before # None /\ coins_after # None
      /\ coins_before < coins_after)
       => "header" \notin live.yielded
  /\ (Accounted /\ coins_before # None /\ coins_after # None
        /\ coins_before < coins_after)
       => live.consulted \cap {"modal", "toast"} # {}

C4_Witness ==
  /\ Accounted
  /\ coins_before = 0 /\ coins_after = 1
  /\ "toast" \in live.yielded
  /\ coins_used = 1

\* C5: a DOM or timeout exception while a posting is processed never aborts
\* the cycle with a later posting of the capped list left unprocessed.
C5_NoDomAbort ==
  ~(/\ pc = "aborted"
    /\ abortedBy = "dom"
    /\ \E k \in (idx + 1)..Len(ToProcess) : Valid(ToProcess[k]))

\* C6: in a live cycle a posting with a valid identifier and no bump control
\* is recorded modal-not-found with coins_used NULL.
C6_NoControlIsModalNotFound ==
  (JustFinished /\ ~dryRun /\ Valid(Prev) /\ ~Prev.has_bump /\ cardLog.rows = 1)
    => bumps[Len(bumps)] = Row(Prev.jid, None, "modal-not-found")

\* C7 as stated: in a dry run nothing is clicked and each posting with a valid
\* identifier yields exactly one upsert and exactly one dry-run row.
C7_DryRunExactlyOneRow ==
  dryRun =>
    /\ cardLog.bumpClicks = 0 /\ ~cardLog.confirmed
    /\ (JustFinished /\ Valid(Prev)) =>
         /\ cardLog.upserts = 1
         /\ cardLog.rows = 1
         /\ bumps[Len(bumps)] = Row(Prev.jid, None, "dry-run")

\* C7 amended: in a dry run nothing is clicked; each posting with a valid
\* identifier the loop has finished with was upserted once and has one row,
\* dry-run with coins_used NULL, unless the write of that row raised: the
\* exception is swallowed and the posting has no row, or one uncommitted row.
C7_DryRunOneRowUnlessSwallowed ==
  dryRun =>
    /\ cardLog.bumpClicks = 0 /\ ~cardLog.confirmed
    /\ \A r \in Rows : r.outcome = "dry-run" /\ r.coins_used = None
    /\ (JustFinished /\ Valid(Prev)) =>
         /\ cardLog.upserts = 1
         /\ cardLog.rows <= 1
         /\ ~cardLog.swallowed => cardLog.rows = 1
         /\ cardLog.rows = 1 =>
              bumps[Len(bumps)] = Row(Prev.jid, None, "dry-run")

C7_Witness ==
  /\ dryRun
  /\ pc = "loop" /\ idx = 3
  /\ Valid(ToProcess[1]) /\ Valid(ToProcess[2]) /\ ToProcess[2].has_bump
  /\ ~cardLog.swallowed
  /\ Len(bumps) = 2

\* C8: when force_close_bump_modal returns, no dialog or overlay is open.
C8_CleanAfterForceClose == pc = "fc_ret" => page = CleanPage

\* C9: a confirmed live bump with no insufficient-balance dialog and a header
\* balance read before and after, before > after, is recorded as bumped with
\* coins_used = before - after.
C9_HeaderDeltaRecorded ==
  /\ (Accounted /\ coins_before # None /\ coins_after # None
        /\ coins_before > coins_after)
       => outcome = "bumped" /\ coins_used = coins_before - coins_after
  /\ LiveRowWritten

C9_Witness ==
  /\ Accounted
  /\ coins_before = 1 /\ coins_after = 0
  /\ outcome = "bumped" /\ coins_used = 1

\* C10: a confirmed live bump for which no coin signal source yields a number
\* is recorded as bumped-unknown-coins with coins_used NULL.
C10_NoSignalIsUnknown ==
  /\ (Accounted /\ live.yielded = {})
       => outcome = "bumped-unknown-coins" /\ coins_used = None
  /\ pc = "inserted" /\ outcome = "bumped-unknown-coins"
       => bumps[Len(bumps)] = Row(Cur.jid, None, "bumped-unknown-coins")

C10_Witness ==
  /\ Accounted
  /\ live.yielded = {}
  /\ live.consulted = {"header", "modal", "toast", "activity"}
  /\ outcome = "bumped-unknown-coins"

\* C11: for a confirmed live bump whose header delta yields no number and
\* whose dialog showed a readable order-summary total while it was open,
\* coins_used is that dialog total.
C11_DialogTotalUsed ==
  (Accounted /\ "header" \notin live.yielded /\ live.coins_cost # None)
    => coins_used = live.coins_cost

\* The rows of bumps that are not committed yet.
Pending == {bumps[i] : i \in (nCommitted + 1)..Len(bumps)}

\* C12 as stated: when the loop turns to the next posting, every row written
\* so far is committed.
C12_CommittedBeforeNext == JustFinished => nCommitted = Len(bumps)

\* C12 amended: the loop index never goes back or skips, every write is for
\* the posting the loop is at, and whenever the loop turns to the next
\* posting every row written so far is committed, except dry-run rows whose
\* commit raised and was swallowed.
C12_OrderedAndCommitted ==
  [][/\ idx' \in {idx, idx + 1}
     /\ pc # "discover" => jobs' = jobs
     /\ bumps' # bumps =>
          /\ idx <= Len(ToProcess)
          /\ \E r \in [job_id : {Cur.jid}, bumped_at : {when},
                        coins_used : CoinOpt, outcome : Outcomes] :
               bumps' = Append(bumps, r)
     /\ jobsTbl' # jobsTbl =>
          /\ idx <= Len(ToProcess)
          /\ jobsTbl' = UpsertedJobs(Cur.jid, Cur.title, when)
     /\ pc' = "loop" =>
          \A i \in (nCommitted' + 1)..Len(bumps') : bumps'[i].outcome = "dry-run"
     /\ pc' = "gate" => nCommitted' = Len(bumps')]_vars

C12_Witness ==
  /\ pc = "loop" /\ idx = 3
  /\ Len(bumps) = 2 /\ nCommitted = 2
  /\ bumps[1].job_id = ToProcess[1].jid /\ bumps[1].outcome = "bumped"
  /\ bumps[2].job_id = ToProcess[2].jid /\ bumps[2].outcome = "modal-not-found"
  /\ ToProcess[1].jid # ToProcess[2].jid

\* C13: a card whose jid is missing or equals COYID is passed over with no
\* upsert and no bumps row, and the loop goes on: no row of jobs or bumps
\* carries a missing jid or COYID.
C13_SkippedLeaveNoRow ==
  /\ \A r \in jobsTbl : r.job_id # NoJid /\ r.job_id # COYID
  /\ \A r \in Rows : r.job_id # NoJid /\ r.job_id # COYID
  /\ (JustFinished /\ ~Valid(Prev)) => cardLog.upserts = 0 /\ cardLog.rows = 0

C13_Witness ==
  /\ pc = "done" /\ idx = 3
  /\ ToProcess[1].jid = COYID /\ ToProcess[1].has_bump
  /\ Valid(ToProcess[2])
  /\ Cardinality(jobsTbl) = 1
  /\ Len(bumps) = 1 /\ bumps[1].job_id = ToProcess[2].jid

\* C14: in continuous mode an exception that leaves run_cycle does not end
\* the process.
C14_LoopSurvivesCycleException == ~(interval > 0 /\ mainPc = "crashed")

\* C15: a cycle that got as far as the loop over the postings has written
\* the session state when it ends, whatever failed for a posting.
C15_StateSavedAfterProcessing ==
  (pc \in {"done", "aborted"} /\ abortedBy \in {"none", "dom", "db"})
    => stateSaved

\* C16: when goto_jobs_list gives up, the cycle ends with a screenshot taken
\* and without any row written to jobs or bumps.
C16_NavFailureDiagnosed ==
  (pc = "aborted" /\ abortedBy = "nav")
    => jobsShot /\ jobsTbl = {} /\ bumps = <<>>

\* How many of the discovered cards the claim lets a cycle process.
Capped == IF limitJobs = 0 THEN Len(jobs) ELSE Min(limitJobs, Len(jobs))

\* C17: with LIMIT_JOBS = 0 a cycle that completes has gone through every
\* discovered card, with LIMIT_JOBS = N > 0 through exactly the first
\* min(N, discovered) cards in discovery order; the loop never reaches a card
\* beyond the cap and every row of jobs and bumps belongs to a card within it.
C17_LimitCaps ==
  /\ idx <= Capped + 1
  /\ pc = "done" =>
       /\ idx = Capped + 1
       /\ \A k \in 1..Capped :
            Valid(jobs[k]) => \E r \in jobsTbl : r.job_id = jobs[k].jid
  /\ (pc \notin {"start", "discover", "done", "aborted"} /\ idx <= Capped)
       => Cur = jobs[idx]
  /\ \A r \in Rows : \E k \in 1..Min(idx, Capped) : jobs[k].jid = r.job_id
  /\ \A r \in jobsTbl : \E k \in 1..Min(idx, Capped) : jobs[k].jid = r.job_id

C17_Witness ==
  /\ pc = "done"
  /\ limitJobs = 1 /\ Len(jobs) = 2
  /\ Valid(jobs[1]) /\ Valid(jobs[2]) /\ jobs[1].jid # jobs[2].jid
  /\ jobs[2].has_bump
  /\ Cardinality(jobsTbl) = 1
  /\ Len(bumps) = 1 /\ bumps[1].job_id = jobs[1].jid

\* C18: jobs never holds two rows with one job_id, and after a call of
\* upsert_job the row of that job_id carries the title and timestamp of the
\* call, also when the job_id had a row before.
C18_UpsertIdempotent ==
  /\ \A r1, r2 \in jobsTbl : r1.job_id = r2.job_id => r1 = r2
  /\ Cardinality(jobsTbl) <= cardLog.upserts
  /\ cardLog.upserts > 0 =>
       [job_id |-> jobs[1].jid, title |-> jobs[1].title, last_seen_at |-> when]
         \in jobsTbl

C18_Witness ==
  /\ cardLog.upserts = 3
  /\ jobsTbl = {[job_id |-> "j1", title |-> "t1", last_seen_at |-> 1],
                [job_id |-> "j2", title |-> "t2", last_seen_at |-> 2]}
  /\ jobs[1].jid = "j2"

\* The anchors of the card that carry a parseable jid.
Parseable == {k \in 1..Len(container.links) : jid_from_href(container.links[k]) # NoJid}

FirstParseable == CHOOSE k \in Parseable : \A j \in Parseable : k <= j

\* C19 as stated: for a card with a parseable jid anchor, extract_jid returns
\* the jid of the first such anchor, however many anchors precede it.
C19_FirstLinkWins ==
  (extracted # "unset" /\ Parseable # {})
    => extracted = jid_from_href(container.links[FirstParseable])

\* C19 amended: for a card whose first parseable jid anchor is among the
\* first ScanLimit anchors with "jid=" in their href, extract_jid returns the
\* jid of that anchor, whatever the stat id and the public link give.
C19_FirstScannedLinkWins ==
  (extracted # "unset" /\ Parseable # {} /\ FirstParseable <= ScanLimit)
    => extracted = jid_from_href(container.links[FirstParseable])

C19_Witness ==
  /\ extracted = "j1"
  /\ Len(container.links) = ScanLimit + 1
  /\ Parseable # {}
  /\ FirstParseable = ScanLimit
  /\ container.links[ScanLimit + 1] = [sep |-> "?", val |-> "j2"]
  /\ jid_from_stat_id(container.stat) = "j2"
  /\ container.pub = [val |-> "j2", long |-> TRUE]

\* C20: no two rows of bumps carry the same job_id and the same bumped_at:
\* a posting id gets at most one row in a cycle.
C20_OneRowPerPostingAndCycle ==
  \A i, j \in 1..Len(bumps) :
    (bumps[i].job_id = bumps[j].job_id /\ bumps[i].bumped_at = bumps[j].bumped_at)
      => i = j

\* C21: with the bump dialog open and an insufficient-balance dialog visible,
\* click_confirm_in_modal does not click the confirm button.
C21_InsufficientBeforeConfirm ==
  [][(pc = "confirm" /\ page.insuff) => ~cardLog'.confirmed]_vars

\* C22: a posting is classified bumped or bumped-unknown-coins (line 527)
\* only with the bump dialog gone after the confirm click; with the dialog
\* still open it is recorded bump-failed.
C22_ClosureIsSuccessSignal ==
  (pc = "close" /\ outcome \in {"bumped", "bumped-unknown-coins"}) => ~page.modal

\* C23: goto_jobs_list clicks in-page navigation links only after a listing
\* URL was tried and showed no job card.
C23_UrlBeforeLinks ==
  \A i \in 1..Len(navTried) :
    navTried[i] = "links" => \E j \in 1..(i - 1) : navTried[j] # "links"

\* C24: when a posting was processed and another iteration is about to start,
\* close_global_popups has run since that posting was finished.
C24_PopupsClosedBetweenPostings ==
  (InLoop /\ cardLog.upserts = 1) => cardLog.swept

\* C25: a live posting whose confirm button was clicked has its bumps row
\* written in the same cycle, also when a DOM exception ends the cycle.
C25_ConfirmedIsRecorded ==
  (pc = "aborted" /\ abortedBy = "dom" /\ cardLog.confirmed) => cardLog.rows >= 1

\* C26: when run_cycle is about to scroll to and click a posting's bump
\* control, the page is the listing page the posting was discovered on.
C26_BumpControlUsedOnListing ==
  pc = "open" => ~leftListing

\* The fallback of click_confirm_in_modal runs b.click() and True is returned.
FallbackClicks == pc = "confirm_fb" /\ pc' = "settle"

\* C27: click_confirm_in_modal issues one confirm click per posting: the
\* programmatic fallback does not click when the normal click already
\* reached the page.
C27_ConfirmIssuedOnce ==
  [][FallbackClicks => ~cardLog.confirmed]_vars

====
